---- MODULE Spec2Model ----
(***************************************************************************)
(* Verification model of the plastic-bottle transaction service:          *)
(*   - the per-client sliding-window rate limiter   (src/src/main.py)     *)
(*   - the transaction ledger                        (src/src/crud.py)     *)
(*   - the leaderboard query                         (src/src/main.py)     *)
(*                                                                         *)
(* Strings that the code inspects character by character (names, wallets,  *)
(* phones) are sequences of one-character strings.  An optional value      *)
(* (a nullable column, an Optional[...] parameter) is None or Some(v).     *)
(***************************************************************************)
EXTENDS Integers, Sequences, FiniteSets, TLC

\* ------------------------------------------------------------------ bounds
MaxTime == 2
MaxCalls == 4
NThreads == 2
MaxRows == 2
MaxLedgerTime == 1
MaxRuns == 2

\* ------------------------------------------------- configuration constants
\* RATE_LIMIT_MAX / RATE_LIMIT_WINDOW are read from the environment; the
\* model runs the limiter with a small configuration.
RATE_LIMIT_MAX == 2
RATE_LIMIT_WINDOW == 1

Threads == 1..NThreads
Times == 0..MaxTime

\* request.client is absent (None) or carries a host string, which may be
\* empty (a connection with no peer address, e.g. over a UNIX socket).
NoClient == "<no client>"
EmptyHost == ""
Clients == {NoClient, "10.0.0.1"}

\* the requests that carry no usable client address
AnonymousClients == {NoClient, EmptyHost}

\* main.py:44-48  client_host = request.client.host if ... else 'unknown'
ClientHost(client) == IF client = NoClient THEN "unknown" ELSE client

Hosts == {ClientHost(c) : c \in Clients \cup AnonymousClients}

\* ------------------------------------------------------- optional values
None == <<>>
Some(v) == <<v>>

\* ---------------------------------------------------------------- strings
S_ann == <<"a", "n", "n">>
S_bob == <<" ", "b", "o", "b">>
S_wallet == <<"0", "x", "A", "B", "C">>
S_phone == <<"+", "5", "5", "1", "2", "3">>
S_empty == <<>>
S_anonymous == <<"a", "n", "o", "n", "y", "m", "o", "u", "s">>
S_None == <<"N", "o", "n", "e">>
S_stars == <<"*", "*", "*", "*">>

Digits == {"0", "1", "2", "3", "4", "5", "6", "7", "8", "9"}

\* str.strip()
RECURSIVE LStrip(_)
LStrip(s) == IF s # <<>> /\ Head(s) = " " THEN LStrip(Tail(s)) ELSE s
RECURSIVE RStrip(_)
RStrip(s) ==
    IF s # <<>> /\ s[Len(s)] = " " THEN RStrip(SubSeq(s, 1, Len(s) - 1)) ELSE s
Strip(s) == RStrip(LStrip(s))

\* Python truthiness of an Optional[str]
Truthy(s) == s # None /\ s # Some(S_empty)

\* s[:n] and s[-n:]
Prefix(s, n) == SubSeq(s, 1, IF Len(s) < n THEN Len(s) ELSE n)
Suffix(s, n) == SubSeq(s, IF Len(s) < n THEN 1 ELSE Len(s) - n + 1, Len(s))

\* models.py:10-13  StatusEnum
StatusEnum == {"pending", "collected", "cancelled"}

VARIABLES
    clock,              \* time.time(), whole seconds
    RATE_LIMIT_STORE,   \* client_host -> list of timestamps
    RATE_LIMIT_LOCK,    \* 0 when free, else the thread holding it
    pc,                 \* per thread: position inside rate_limiter / the request
    client_host,        \* per thread: local of rate_limiter
    now,                \* per thread: local of rate_limiter
    read_lst,           \* per thread: the local lst of rate_limiter, step by step
    calls,              \* history: completed rate_limiter calls, in lock order
    rows,               \* the transactions table: id -> row
    origin,             \* history: id -> how the request that created the row got in
    retired,            \* history: ids of rows that have been deleted
    resp,               \* the last HTTP response, or the outcome of a CLI command
    database,           \* the database file: layout of transactions, the table transactions_new
    work,               \* the open transaction's uncommitted database, or None
    init_db,            \* position and locals of init_db
    proc,               \* the running process: entry point, init_db calls completed
    hist,               \* history of the current and the previous init_db run
    prior,              \* history: the table a single-request specification starts from
    collect_tx          \* per thread: the row object of crud.collect_transaction, step by step

limiterVars == <<RATE_LIMIT_STORE, RATE_LIMIT_LOCK, pc, client_host, now, read_lst, calls>>
ledgerVars == <<rows, origin, retired>>
storeVars == <<database, work, init_db, proc, hist>>
vars == <<clock, limiterVars, ledgerVars, resp, storeVars, prior, collect_tx>>

\* --------------------------------------------------------------- responses
Response(op, status) == [op |-> op, status |-> status, limit |-> 0, items |-> <<>>]
NoResponse == Response("none", 0)

\* ------------------------------------------------------------ rate_limiter
\* main.py:54  lst = [ts for ts in lst if now - ts <= RATE_LIMIT_WINDOW]
\* (fault variant for C2: the window taken one second too wide;
\*  fault variant for C24: nothing is removed)
EvictNothing(lst, t) == lst
EvictWide(lst, t) == SelectSeq(lst, LAMBDA ts : t - ts <= RATE_LIMIT_WINDOW + 1)
Evict(lst, t) == SelectSeq(lst, LAMBDA ts : t - ts <= RATE_LIMIT_WINDOW)

\* main.py:55  if len(lst) >= RATE_LIMIT_MAX
\* (fault variant for C1: > in place of >=)
OverLimitStrict(lst) == Len(lst) > RATE_LIMIT_MAX
OverLimit(lst) == Len(lst) >= RATE_LIMIT_MAX

\* RATE_LIMIT_STORE.get(client_host, [])
StoreGet(store, host) == store[host]

\* main.py:55-57  the raise leaves the with-block before lines 59-60: neither
\* the evicted list nor this call's timestamp is written back
\* (fault variant for C22: the denied call is recorded as well)
DeniedStoreRecorded(store, host, lst, t) == [store EXCEPT ![host] = Append(lst, t)]
DeniedStore(store, host, lst, t) == store

\* main.py:59-60  lst.append(now); RATE_LIMIT_STORE[client_host] = lst
\* (fault variant for C23: the timestamp is appended to the list as it was
\* stored, not to the evicted one)
AllowedStoreUnevicted(store, host, lst, t) ==
    [store EXCEPT ![host] = Append(store[host], t)]
AllowedStore(store, host, lst, t) == [store EXCEPT ![host] = Append(lst, t)]

\* ------------------------------------------------------------ the database
\* models.py:20-30  the columns of transactions besides id
CollectedColumns == {"collected_weight_kg", "collected_photo", "collected_at"}
ModelColumns ==
    {"name", "phone", "wallet", "weight_kg", "address", "photo", "date", "status"}
        \cup CollectedColumns

\* A database is the layout of the transactions table (whether it exists, its
\* columns, whether weight_kg is NOT NULL), its rows, and the table
\* transactions_new (None when there is none, else Some(its rows)).
\* database.py:14 / models.py:16-30  the table create_all creates
NewDatabase ==
    [exists |-> TRUE, columns |-> ModelColumns, weight_notnull |-> FALSE,
     shadow |-> None, rows |-> <<>>]

Layout(d) ==
    [exists |-> d.exists, columns |-> d.columns,
     weight_notnull |-> d.weight_notnull, shadow |-> d.shadow]

\* init_db is not running
IdleInitDb == [pc |-> "idle", existing |-> {}, weight_info |-> None, alters |-> <<>>]

NoHist ==
    [start |-> None, pre |-> None, did |-> {}, failed |-> "none", seen |-> None,
     prev_ok |-> FALSE, prev_did |-> {}]

\* crud.collect_transaction is not running
IdleCollect ==
    [pc |-> "idle", tx_id |-> 0, asked |-> None, loaded |-> None, assigned |-> None,
     status |-> 0]

\* the service is up: on_startup has run init_db on a database that has the
\* layout of models.py
ServiceUp ==
    /\ database = Layout(NewDatabase)
    /\ work = None
    /\ init_db = IdleInitDb
    /\ proc = [entry |-> "service", inits |-> 1, n |-> 1]
    /\ hist = NoHist
    /\ prior = None
    /\ collect_tx = [t \in Threads |-> IdleCollect]

Init ==
    /\ clock = 0
    /\ RATE_LIMIT_STORE = [h \in Hosts |-> <<>>]
    /\ RATE_LIMIT_LOCK = 0
    /\ pc = [t \in Threads |-> "idle"]
    /\ client_host = [t \in Threads |-> "unknown"]
    /\ read_lst = [t \in Threads |-> <<>>]
    /\ now = [t \in Threads |-> 0]
    /\ calls = <<>>
    /\ rows = <<>>
    /\ origin = <<>>
    /\ retired = {}
    /\ resp = NoResponse
    /\ ServiceUp

\* the wall clock advances
Tick ==
    /\ clock < MaxTime
    /\ clock' = clock + 1
    /\ UNCHANGED <<limiterVars, ledgerVars, storeVars, prior, collect_tx, resp>>

Started == Len(calls) + Cardinality({t \in Threads : pc[t] # "idle"})

\* main.py:44-50  resolve the client host, read the clock
RateLimiterEnter(t, client) ==
    /\ pc[t] = "idle"
    /\ Started < MaxCalls
    /\ client_host' = [client_host EXCEPT ![t] = ClientHost(client)]
    /\ now' = [now EXCEPT ![t] = clock]
    /\ pc' = [pc EXCEPT ![t] = "wait_lock"]
    /\ UNCHANGED <<clock, RATE_LIMIT_STORE, RATE_LIMIT_LOCK, read_lst, calls, ledgerVars, storeVars, prior, collect_tx, resp>>

\* main.py:51  with RATE_LIMIT_LOCK: the lock can be taken when no thread holds it
\* (fault variant for C25: the with-statement is missing)
CanAcquireUnlocked(lock) == TRUE
CanAcquire(lock) == lock = 0

\* main.py:51  leaving the with-block releases the lock, on return and when
\* the HTTPException of line 57 propagates
\* (fault variant for C29: acquire()/release() by hand, no release on raise)
ExitWithNoReleaseOnRaise(lock, res) == IF res = "deny" THEN lock ELSE 0
ExitWith(lock, res) == 0

\* main.py:51  with RATE_LIMIT_LOCK:  (acquire)
RateLimiterAcquire(t) ==
    /\ pc[t] = "wait_lock"
    /\ CanAcquire(RATE_LIMIT_LOCK)
    /\ RATE_LIMIT_LOCK' = t
    /\ pc' = [pc EXCEPT ![t] = "locked"]
    /\ UNCHANGED <<clock, RATE_LIMIT_STORE, client_host, now, read_lst, calls, ledgerVars, storeVars, prior, collect_tx, resp>>

\* main.py:55-60  the decision on the evicted list lst, the write, and the
\* exit from the with-block.  On return the thread goes on at `after`: the
\* route handler when the limiter runs as a dependency of a route, "idle"
\* when it is called on its own.
Decide(t, lst, after) ==
    /\ LET rec(res) == [key |-> client_host[t], now |-> now[t],
                        at |-> clock, res |-> res]
       IN  IF OverLimit(lst)
           THEN \* raise HTTPException(status_code=429, ...)
                /\ calls' = Append(calls, rec("deny"))
                /\ RATE_LIMIT_STORE' =
                       DeniedStore(RATE_LIMIT_STORE, client_host[t], lst, now[t])
                /\ RATE_LIMIT_LOCK' = ExitWith(RATE_LIMIT_LOCK, "deny")
                /\ pc' = [pc EXCEPT ![t] = "idle"]
                /\ resp' = Response("rate_limiter", 429)
           ELSE /\ calls' = Append(calls, rec("allow"))
                /\ RATE_LIMIT_STORE' =
                       AllowedStore(RATE_LIMIT_STORE, client_host[t], lst, now[t])
                /\ RATE_LIMIT_LOCK' = ExitWith(RATE_LIMIT_LOCK, "allow")
                /\ pc' = [pc EXCEPT ![t] = after]
                /\ UNCHANGED resp
    /\ client_host' = [client_host EXCEPT ![t] = "unknown"]
    /\ now' = [now EXCEPT ![t] = 0]
    /\ UNCHANGED <<clock, ledgerVars, storeVars, prior, collect_tx>>

\* main.py:52-60  body of the with-block, taken as one step
RateLimiterBody(t, after) ==
    /\ pc[t] = "locked"
    /\ RATE_LIMIT_LOCK = t
    /\ Decide(t, Evict(StoreGet(RATE_LIMIT_STORE, client_host[t]), now[t]), after)
    /\ UNCHANGED read_lst

NextAdmit ==
    \/ Tick
    \/ \E t \in Threads, c \in Clients : RateLimiterEnter(t, c)
    \/ \E t \in Threads : RateLimiterAcquire(t)
    \/ \E t \in Threads : RateLimiterBody(t, "idle")

SpecAdmit == Init /\ [][NextAdmit]_vars

\* the limiter under requests that carry no usable client address
NextSentinel ==
    \/ Tick
    \/ \E t \in Threads, c \in AnonymousClients : RateLimiterEnter(t, c)
    \/ \E t \in Threads : RateLimiterAcquire(t)
    \/ \E t \in Threads : RateLimiterBody(t, "idle")

SpecSentinel == Init /\ [][NextSentinel]_vars

\* ------------------------------------- the with-block, statement by statement
\* main.py:53  lst = RATE_LIMIT_STORE.get(client_host, [])
RateLimiterRead(t) ==
    /\ pc[t] = "locked"
    /\ read_lst' = [read_lst EXCEPT ![t] = StoreGet(RATE_LIMIT_STORE, client_host[t])]
    /\ pc' = [pc EXCEPT ![t] = "read"]
    /\ UNCHANGED <<clock, RATE_LIMIT_STORE, RATE_LIMIT_LOCK, client_host, now, calls, ledgerVars, storeVars, prior, collect_tx, resp>>

\* main.py:54  lst = [ts for ts in lst if now - ts <= RATE_LIMIT_WINDOW]
RateLimiterEvict(t) ==
    /\ pc[t] = "read"
    /\ read_lst' = [read_lst EXCEPT ![t] = Evict(read_lst[t], now[t])]
    /\ pc' = [pc EXCEPT ![t] = "evicted"]
    /\ UNCHANGED <<clock, RATE_LIMIT_STORE, RATE_LIMIT_LOCK, client_host, now, calls, ledgerVars, storeVars, prior, collect_tx, resp>>

\* main.py:55-60  check, append, store, leave the with-block
RateLimiterDecide(t) ==
    /\ pc[t] = "evicted"
    /\ Decide(t, read_lst[t], "idle")
    /\ read_lst' = [read_lst EXCEPT ![t] = <<>>]

NextSection ==
    \/ Tick
    \/ \E t \in Threads, c \in Clients : RateLimiterEnter(t, c)
    \/ \E t \in Threads : RateLimiterAcquire(t)
    \/ \E t \in Threads : RateLimiterRead(t)
    \/ \E t \in Threads : RateLimiterEvict(t)
    \/ \E t \in Threads : RateLimiterDecide(t)

SpecSection == Init /\ [][NextSection]_vars

\* Threads are scheduled fairly: a thread that can run its next statement
\* eventually does, and a thread waiting for the lock eventually gets it if
\* the lock keeps becoming free.  Requests need not arrive and the clock
\* need not advance.
FairSection ==
    \A t \in Threads :
        /\ SF_vars(RateLimiterAcquire(t))
        /\ WF_vars(RateLimiterRead(t))
        /\ WF_vars(RateLimiterEvict(t))
        /\ WF_vars(RateLimiterDecide(t))

\* RATE_LIMIT_LOCK is one lock for all keys: waiting for it does not depend on
\* the key, and the calls of a single key already take both exits of the
\* with-block.
NextSectionOneKey ==
    \/ Tick
    \/ \E t \in Threads : RateLimiterEnter(t, NoClient)
    \/ \E t \in Threads : RateLimiterAcquire(t)
    \/ \E t \in Threads : RateLimiterRead(t)
    \/ \E t \in Threads : RateLimiterEvict(t)
    \/ \E t \in Threads : RateLimiterDecide(t)

SpecSectionFair == Init /\ [][NextSectionOneKey]_vars /\ FairSection

\* ------------------------------------------------------------------ ledger
Max(S) == CHOOSE x \in S : \A y \in S : y <= x
Min(S) == CHOOSE x \in S : \A y \in S : x <= y

\* models.py:19  id = Column(Integer, primary_key=True): on the SQLite store
\* of database.py:6 this is a rowid alias without AUTOINCREMENT, so an insert
\* takes one more than the largest id currently in the table.
NextId(table) == IF DOMAIN table = {} THEN 1 ELSE Max(DOMAIN table) + 1

\* crud.py:21-22  get_transaction -> row or None
HasTransaction(tx_id) == tx_id \in DOMAIN rows

Without(table, tx_id) == [i \in DOMAIN table \ {tx_id} |-> table[i]]

\* crud.py:6-18  create_transaction at time t: status and date take the column
\* defaults of models.py:26-27, the collected_* columns stay NULL.
NewRow(tx, t) ==
    [name |-> tx.name, phone |-> tx.phone, wallet |-> tx.wallet,
     weight_kg |-> tx.weight_kg, address |-> tx.address, photo |-> tx.photo,
     date |-> t, status |-> "pending",
     collected_weight_kg |-> None, collected_photo |-> None,
     collected_at |-> None]

\* crud.py:33  tx.status = status
WithStatus(r, status) == [r EXCEPT !.status = status]

\* crud.py:44-48  the fields collect_transaction sets, at time t
\* (fault variant for C18: a row that is already collected is left as it is)
CollectedOnce(r, collected_weight, collected_photo, t) ==
    IF r.status = "collected" THEN r
    ELSE [r EXCEPT !.collected_weight_kg = collected_weight,
                   !.collected_photo = collected_photo,
                   !.collected_at = Some(t),
                   !.status = "collected"]
Collected(r, collected_weight, collected_photo, t) ==
    [r EXCEPT !.collected_weight_kg = collected_weight,
              !.collected_photo = collected_photo,
              !.collected_at = Some(t),
              !.status = "collected"]

\* schemas.py:13-20  TransactionCreate: weight_kg is Optional with gt=0
ValidTransactionCreate(tx) == tx.weight_kg = None \/ tx.weight_kg[1] > 0

\* request bodies tried against POST /transactions
TxInputs ==
    {[name |-> S_ann, phone |-> None, wallet |-> Some(S_wallet),
      weight_kg |-> Some(1), address |-> None, photo |-> None],
     [name |-> S_bob, phone |-> Some(S_phone), wallet |-> Some(S_wallet),
      weight_kg |-> None, address |-> None, photo |-> None],
     [name |-> S_empty, phone |-> Some(S_phone), wallet |-> Some(S_empty),
      weight_kg |-> Some(2), address |-> None, photo |-> None],
     [name |-> S_empty, phone |-> None, wallet |-> None,
      weight_kg |-> None, address |-> None, photo |-> None],
     [name |-> S_ann, phone |-> None, wallet |-> None,
      weight_kg |-> Some(0), address |-> None, photo |-> None]}

Insert(tx, how) ==
    LET id == NextId(rows)
    IN  /\ rows' = (id :> NewRow(tx, clock)) @@ rows
        /\ origin' = (id :> how) @@ origin
        /\ UNCHANGED retired

\* main.py:82-84  POST /transactions
CreateTransaction(tx_in) ==
    /\ NextId(rows) <= MaxRows
    /\ IF ~ValidTransactionCreate(tx_in)
       THEN /\ resp' = Response("create_transaction", 422)
            /\ UNCHANGED ledgerVars
       ELSE /\ Insert(tx_in, [endpoint |-> "/transactions", admit |-> "not called"])
            /\ resp' = Response("create_transaction", 200)
    /\ UNCHANGED <<clock, limiterVars, storeVars, prior, collect_tx>>

\* main.py:337  if status_in.status == models.StatusEnum.collected: raise 400
\* (fault variant for C27: the check is missing)
DirectlySettableAny(status) == TRUE
DirectlySettable(status) == status # "collected"

\* main.py:64-73  require_admin passes or raises 403
\* main.py:331-343  PATCH /transactions/{tx_id}/status
PatchStatus(tx_id, status, admin) ==
    /\ IF ~admin
       THEN /\ resp' = Response("patch_status", 403)
            /\ UNCHANGED ledgerVars
       ELSE IF ~DirectlySettable(status)
       THEN /\ resp' = Response("patch_status", 400)
            /\ UNCHANGED ledgerVars
       ELSE IF ~HasTransaction(tx_id)
       THEN /\ resp' = Response("patch_status", 404)
            /\ UNCHANGED ledgerVars
       ELSE \* crud.py:29-37  update_status
            /\ rows' = [rows EXCEPT ![tx_id] = WithStatus(@, status)]
            /\ resp' = Response("patch_status", 200)
            /\ UNCHANGED <<origin, retired>>
    /\ UNCHANGED <<clock, limiterVars, storeVars, prior, collect_tx>>

\* main.py:379  collected_weight: Optional[float] = Form(None): the form field
\* is parsed as a float, and "nan" parses.  An Optional[float] holding NaN is
\* written SomeNaN.
SomeNaN == <<0, 0>>
IsNaN(w) == Len(w) = 2

\* main.py:391-396  cw = float(collected_weight); if cw <= 0: raise ValueError()
\* (every comparison with NaN is false)
NonPositive(w) == ~IsNaN(w) /\ w[1] <= 0

\* models.py:28  collected_weight_kg = Column(Float): on the SQLite store of
\* database.py:6 a NaN bound to the column is stored as NULL
StoredFloat(w) == IF IsNaN(w) THEN None ELSE w

\* main.py:376-415  PATCH /transactions/{tx_id}/collect
\* collected_photo: None, or Some(name) of the saved upload
CollectTransactionEndpoint(tx_id, collected_weight, collected_photo, admin) ==
    /\ IF ~admin
       THEN /\ resp' = Response("collect_transaction", 403)
            /\ UNCHANGED ledgerVars
       ELSE IF collected_weight = None \/ NonPositive(collected_weight)
       THEN /\ resp' = Response("collect_transaction", 400)
            /\ UNCHANGED ledgerVars
       ELSE IF ~HasTransaction(tx_id)
       THEN /\ resp' = Response("collect_transaction", 404)
            /\ UNCHANGED ledgerVars
       ELSE \* crud.py:40-52  collect_transaction
            /\ rows' = [rows EXCEPT ![tx_id] =
                           Collected(@, StoredFloat(collected_weight),
                                     collected_photo, clock)]
            /\ resp' = Response("collect_transaction", 200)
            /\ UNCHANGED <<origin, retired>>
    /\ UNCHANGED <<clock, limiterVars, storeVars, prior, collect_tx>>

\* main.py:418-426  DELETE /transactions/{tx_id}
DeleteTransaction(tx_id, admin) ==
    /\ IF ~admin
       THEN /\ resp' = Response("delete_transaction", 403)
            /\ UNCHANGED ledgerVars
       ELSE IF ~HasTransaction(tx_id)
       THEN /\ resp' = Response("delete_transaction", 404)
            /\ UNCHANGED ledgerVars
       ELSE /\ rows' = Without(rows, tx_id)
            /\ origin' = Without(origin, tx_id)
            /\ retired' = retired \cup {tx_id}
            /\ resp' = Response("delete_transaction", 200)
    /\ UNCHANGED <<clock, limiterVars, storeVars, prior, collect_tx>>

\* float(s) for the form strings tried: Some(value), or None for ValueError
RECURSIVE DigitsValue(_)
DigitsValue(s) ==
    IF s = <<>> THEN 0
    ELSE 10 * DigitsValue(SubSeq(s, 1, Len(s) - 1))
         + (CHOOSE d \in 0..9 : <<"0", "1", "2", "3", "4", "5", "6", "7", "8", "9">>[d + 1] = s[Len(s)])
ParseFloat(s) ==
    IF s # <<>> /\ \A i \in DOMAIN s : s[i] \in Digits THEN Some(DigitsValue(s)) ELSE None

\* multipart forms tried against POST /submit; photo is "none", "saved" (the
\* upload is written to UPLOAD_DIR) or "oserror" (writing it fails)
SubmitForms ==
    {[name |-> S_ann, phone |-> None, wallet |-> Some(S_wallet),
      weight_kg |-> Some(<<"1">>), hp |-> None, photo |-> "none"],
     [name |-> S_bob, phone |-> Some(S_phone), wallet |-> Some(S_empty),
      weight_kg |-> Some(S_empty), hp |-> Some(<<" ">>), photo |-> "saved"],
     [name |-> S_ann, phone |-> None, wallet |-> None,
      weight_kg |-> Some(<<"0">>), hp |-> None, photo |-> "none"],
     [name |-> S_ann, phone |-> None, wallet |-> None,
      weight_kg |-> Some(<<"x">>), hp |-> None, photo |-> "none"],
     [name |-> S_ann, phone |-> None, wallet |-> None,
      weight_kg |-> None, hp |-> Some(<<"b", "o", "t">>), photo |-> "none"],
     [name |-> S_ann, phone |-> None, wallet |-> None,
      weight_kg |-> None, hp |-> None, photo |-> "oserror"]}

\* main.py:196-230  the status the try-block raises before it reaches the
\* insert, or 0 when it raises nothing
SubmitRaises(form) ==
    IF Truthy(form.hp) /\ Strip(form.hp[1]) # S_empty THEN 400
    ELSE IF form.photo = "oserror" THEN 500
    ELSE IF form.weight_kg # None /\ form.weight_kg # Some(S_empty)
            /\ (ParseFloat(form.weight_kg[1]) = None
                \/ ParseFloat(form.weight_kg[1])[1] <= 0) THEN 400
    ELSE 0

\* main.py:222-239  the TransactionCreate built from a form that raised nothing
SubmitTxIn(form) ==
    [name |-> form.name, phone |-> form.phone, wallet |-> form.wallet,
     weight_kg |-> IF form.weight_kg # None /\ form.weight_kg # Some(S_empty)
                   THEN ParseFloat(form.weight_kg[1]) ELSE None,
     address |-> None,
     photo |-> IF form.photo = "saved" THEN Some(<<"u">>) ELSE None]

\* main.py:183-287  POST /submit, after the rate_limiter dependency returned.
\* Every exception of the try-block, HTTPException included, is caught at
\* main.py:276 and answered with 500.
SubmitTransaction(t, form) ==
    /\ pc[t] = "submit_transaction"
    /\ NextId(rows) <= MaxRows
    /\ IF SubmitRaises(form) # 0
       THEN /\ resp' = Response("submit_transaction", 500)
            /\ UNCHANGED ledgerVars
       ELSE /\ Insert(SubmitTxIn(form), [endpoint |-> "/submit", admit |-> "allow"])
            /\ resp' = Response("submit_transaction", 200)
    /\ pc' = [pc EXCEPT ![t] = "idle"]
    /\ UNCHANGED <<clock, RATE_LIMIT_STORE, RATE_LIMIT_LOCK, client_host, now, read_lst, calls, storeVars, prior, collect_tx>>

\* ----------------------------------------------------------------- ranking
\* main.py:101-104  identity_expr: wallet when non-NULL and non-empty, else phone
\* (fault variant for C8: the empty-wallet test left out)
IdentityWalletUnlessNull(r) == IF r.wallet # None THEN r.wallet ELSE r.phone
IdentityExpr(r) ==
    IF r.wallet # None /\ r.wallet # Some(S_empty) THEN r.wallet ELSE r.phone

\* main.py:113  .filter(Transaction.status == StatusEnum.collected)
\* (fault variant for C7: the status filter left out)
AnyStatusFilter(r) == TRUE
CollectedFilter(r) == r.status = "collected"

RECURSIVE SumCollectedWeight(_, _)
SumCollectedWeight(table, S) ==
    IF S = {} THEN 0
    ELSE LET i == CHOOSE x \in S : TRUE
         IN  table[i].collected_weight_kg[1] + SumCollectedWeight(table, S \ {i})

\* main.py:110  func.sum(collected_weight_kg): NULLs are skipped, and the sum
\* of no values is NULL
SqlSum(table, S) ==
    LET nonnull == {i \in S : table[i].collected_weight_kg # None}
    IN  IF nonnull = {} THEN None ELSE Some(SumCollectedWeight(table, nonnull))

\* main.py:111  func.max(Transaction.id)
\* (fault variant for C9: func.min in place of func.max)
FirstId(S) == Min(S)
LastId(S) == Max(S)

\* main.py:107-116  agg_sub: one row per identity among the filtered rows
AggSub(table) ==
    LET sel == {i \in DOMAIN table : CollectedFilter(table[i])}
        group(k) == {i \in sel : IdentityExpr(table[i]) = k}
    IN  {[ident |-> k, total_kg |-> SqlSum(table, group(k)),
          last_id |-> LastId(group(k))] : k \in {IdentityExpr(table[i]) : i \in sel}}

\* main.py:119-127  join back to transactions on id == last_id
Joined(table) ==
    {[ident |-> g.ident, total_kg |-> g.total_kg, name |-> table[g.last_id].name,
      wallet |-> table[g.last_id].wallet, phone |-> table[g.last_id].phone] :
        g \in {a \in AggSub(table) : a.last_id \in DOMAIN table}}

\* main.py:128  .order_by(total_kg.desc()): a may come before b.  SQLite sorts
\* NULL below every number; rows with equal keys come in any order.
\* (fault variant for C10: ascending order)
AscBefore(a, b) ==
    \/ a.total_kg = None
    \/ (b.total_kg # None /\ a.total_kg[1] <= b.total_kg[1])
DescBefore(a, b) ==
    \/ b.total_kg = None
    \/ (a.total_kg # None /\ a.total_kg[1] >= b.total_kg[1])

OrderBy(G) ==
    {seq \in [1..Cardinality(G) -> G] :
        /\ \A a, b \in DOMAIN seq : a # b => seq[a] # seq[b]
        /\ \A a, b \in DOMAIN seq : a < b => DescBefore(seq[a], seq[b])}

\* main.py:129  .limit(limit)
Limit(seq, n) == SubSeq(seq, 1, IF n < Len(seq) THEN n ELSE Len(seq))

\* main.py:132-138  mask_phone
OnlyDigits(s) == SelectSeq(s, LAMBDA c : c \in Digits)
MaskPhone(p) ==
    IF ~Truthy(p) THEN p
    ELSE LET digits == OnlyDigits(p[1])
         IN  IF Len(digits) <= 4 THEN Some(S_stars \o digits)
             ELSE Some(S_stars \o Suffix(digits, 4))

\* str(x) inside an f-string
Str(s) == IF s = None THEN S_None ELSE s[1]

\* main.py:141-160  one leaderboard item per joined row
Item(j) ==
    LET kind == IF Truthy(j.wallet) /\ Strip(j.wallet[1]) # S_empty
                THEN "wallet" ELSE "phone"
        rep_name == Strip(j.name)
        shown == IF rep_name # S_empty THEN rep_name ELSE S_anonymous
        wallet_prefix == Prefix(Str(j.ident), 4)
    IN  [type |-> kind,
         identifier |-> j.ident,
         display_name |->
            IF kind = "wallet"
            THEN shown \o <<" ", "(">> \o wallet_prefix \o <<")">>
            ELSE shown \o <<" ", "(">> \o Str(MaskPhone(j.ident)) \o <<")">>,
         rep_name |-> rep_name,
         wallet_prefix |-> IF kind = "wallet" THEN Some(wallet_prefix) ELSE None,
         total_kg |-> IF j.total_kg = None THEN 0 ELSE j.total_kg[1]]

Items(seq) == [i \in DOMAIN seq |-> Item(seq[i])]

\* every response GET /ranking?limit=n can give for a table
RankingResults(table, n) == {Items(Limit(seq, n)) : seq \in OrderBy(Joined(table))}

\* main.py:93-162  GET /ranking
Ranking(limit) ==
    /\ \E items \in RankingResults(rows, limit) :
           resp' = [op |-> "ranking", status |-> 200, limit |-> limit, items |-> items]
    /\ UNCHANGED <<clock, limiterVars, ledgerVars, storeVars, prior, collect_tx>>

\* ------------------------------------------------------------ contributors
\* main.py:174  .filter((wallet == identifier) | (phone == identifier)); a
\* NULL column equals nothing
ContributorFilter(r, identifier) ==
    r.wallet = Some(identifier) \/ r.phone = Some(identifier)

\* main.py:173  the column that func.sum adds up
\* (fault variant for C20: the collected weight summed instead)
ContributorWeightCollected(r) == r.collected_weight_kg
ContributorWeight(r) == r.weight_kg

RECURSIVE SumContributorWeight(_, _)
SumContributorWeight(table, S) ==
    IF S = {} THEN 0
    ELSE LET i == CHOOSE x \in S : TRUE
         IN  ContributorWeight(table[i])[1] + SumContributorWeight(table, S \ {i})

\* main.py:173  func.sum(weight_kg).label('kg'): NULLs are skipped, the sum of
\* no values is NULL
SqlSumWeight(table, S) ==
    LET nonnull == {i \in S : ContributorWeight(table[i]) # None}
    IN  IF nonnull = {} THEN None ELSE Some(SumContributorWeight(table, nonnull))

\* main.py:172-176  one result row per (wallet, phone) among the filtered rows
ContributorRows(table, identifier) ==
    LET sel == {i \in DOMAIN table : ContributorFilter(table[i], identifier)}
        key(i) == <<table[i].wallet, table[i].phone>>
    IN  {[wallet |-> k[1], phone |-> k[2],
          kg |-> SqlSumWeight(table, {i \in sel : key(i) = k})] :
            k \in {key(i) : i \in sel}}

\* main.py:178-179  {'wallet': w, 'phone': p, 'kg': float(kg or 0)}
Contribution(g) ==
    [wallet |-> g.wallet, phone |-> g.phone,
     kg |-> IF g.kg = None THEN 0 ELSE g.kg[1]]

\* .all() without ORDER BY: the result rows come in any order
AnyOrder(G) ==
    {seq \in [1..Cardinality(G) -> G] :
        \A a, b \in DOMAIN seq : a # b => seq[a] # seq[b]}

\* every response GET /ranking/{identifier}/contributors can give for a table
ContributorsResults(table, identifier) ==
    {[i \in DOMAIN seq |-> Contribution(seq[i])] :
        seq \in AnyOrder(ContributorRows(table, identifier))}

\* main.py:165-180  GET /ranking/{identifier}/contributors
RankingContributors(identifier) ==
    /\ \E items \in ContributorsResults(rows, identifier) :
           resp' = [op |-> "ranking_contributors", status |-> 200, limit |-> 0,
                    items |-> items, identifier |-> identifier]
    /\ UNCHANGED <<clock, limiterVars, ledgerVars, storeVars, prior, collect_tx>>

\* ------------------------------------------------------- the ledger service
LedgerTick ==
    /\ clock < MaxLedgerTime
    /\ clock' = clock + 1
    /\ UNCHANGED <<limiterVars, ledgerVars, storeVars, prior, collect_tx, resp>>

TxIds == 1..MaxRows
\* form inputs tried against PATCH /transactions/{tx_id}/collect
CollectInputs ==
    {[collected_weight |-> None, collected_photo |-> None],
     [collected_weight |-> Some(0), collected_photo |-> None],
     [collected_weight |-> Some(1), collected_photo |-> None],
     [collected_weight |-> Some(2), collected_photo |-> Some(<<"c">>)],
     [collected_weight |-> SomeNaN, collected_photo |-> None]}

NextLedger ==
    \/ LedgerTick
    \/ \E tx_in \in TxInputs : CreateTransaction(tx_in)
    \/ \E id \in TxIds, st \in StatusEnum : PatchStatus(id, st, TRUE)
    \/ PatchStatus(1, "cancelled", FALSE)
    \/ \E id \in TxIds, form \in CollectInputs :
          CollectTransactionEndpoint(id, form.collected_weight, form.collected_photo, TRUE)
    \/ CollectTransactionEndpoint(1, Some(1), None, FALSE)
    \/ \E id \in TxIds : DeleteTransaction(id, TRUE)
    \/ DeleteTransaction(1, FALSE)

SpecLedger == Init /\ [][NextLedger]_vars

\* ---------------------------------------------------- the leaderboard query
\* The rows the ledger routes can leave in the table: created at time 0,
\* possibly collected at some time, possibly given another status afterwards.
RowsFrom(inputs) ==
    LET fresh == {NewRow(tx, 0) : tx \in {x \in inputs : ValidTransactionCreate(x)}}
        valid == {f \in CollectInputs :
                    f.collected_weight # None /\ f.collected_weight[1] > 0}
        collected == {Collected(r, f.collected_weight, f.collected_photo, t) :
                        r \in fresh, f \in valid, t \in 0..MaxLedgerTime}
    IN  fresh \cup collected
        \cup {WithStatus(r, st) : r \in fresh \cup collected, st \in {"pending", "cancelled"}}

LedgerRows == RowsFrom(TxInputs)

LedgerTables == UNION {[ids -> LedgerRows] : ids \in SUBSET TxIds}

\* GET /ranking is a read-only query: it is applied to every table.
InitRanking ==
    /\ clock = MaxLedgerTime
    /\ RATE_LIMIT_STORE = [h \in Hosts |-> <<>>]
    /\ RATE_LIMIT_LOCK = 0
    /\ pc = [t \in Threads |-> "idle"]
    /\ client_host = [t \in Threads |-> "unknown"]
    /\ read_lst = [t \in Threads |-> <<>>]
    /\ now = [t \in Threads |-> 0]
    /\ calls = <<>>
    /\ rows \in LedgerTables
    /\ origin = [id \in DOMAIN rows |-> [endpoint |-> "/transactions", admit |-> "not called"]]
    /\ retired = {}
    /\ resp = NoResponse
    /\ ServiceUp

\* one request per table
NextRanking == resp = NoResponse /\ \E limit \in 1..MaxRows : Ranking(limit)

SpecRanking == InitRanking /\ [][NextRanking]_vars

\* ------------------------------------------------------------------ init_db
\* the database as committed to the file
Db ==
    [exists |-> database.exists, columns |-> database.columns,
     weight_notnull |-> database.weight_notnull, shadow |-> database.shadow,
     rows |-> rows]

SetDb(d) == rows' = d.rows /\ database' = Layout(d)

\* what the connection of init_db sees: its own uncommitted changes, if any
View == IF work # None THEN work[1] ELSE Db

\* database.py:14  Base.metadata.create_all creates the table when there is none
CreateAll(d) == IF d.exists THEN d ELSE [NewDatabase EXCEPT !.shadow = d.shadow]

\* database.py:24-26  existing = {r[1] for r in rows}; no rows for a missing table
TableInfoNames(d) == IF d.exists THEN d.columns \cup {"id"} ELSE {}

\* database.py:28-32  weight_info: None, or Some(the notnull flag of weight_kg)
WeightInfo(d) ==
    IF d.exists /\ "weight_kg" \in d.columns
    THEN Some(IF d.weight_notnull THEN 1 ELSE 0) ELSE None

\* database.py:33-39  alters, as the columns to add
Alters(existing) ==
    SelectSeq(<<"collected_weight_kg", "collected_photo", "collected_at">>,
              LAMBDA c : c \notin existing)

\* database.py:44  if weight_info is not None and weight_info[3] == 1
\* (fault variant for C12: the notnull test left out)
NeedsRebuildAnyWeight(weight_info) == weight_info # None
NeedsRebuild(weight_info) == weight_info # None /\ weight_info[1] = 1

\* database.py:35-41  ALTER TABLE transactions ADD COLUMN c: existing rows get NULL
AddColumnOk(d, c) == d.exists /\ c \notin d.columns
AddColumn(d, c) ==
    [d EXCEPT !.columns = @ \cup {c},
              !.rows = [id \in DOMAIN @ |-> (c :> None) @@ @[id]]]

\* database.py:66  INSERT INTO transactions_new (id, ...) SELECT id, ... FROM transactions
\* (fault variant for C17: id left out of the column lists, so ids are assigned afresh)
CopyRowsWithoutId(src, dst) ==
    LET nth(k) == CHOOSE id \in DOMAIN src : Cardinality({x \in DOMAIN src : x <= id}) = k
    IN  [k \in 1..Cardinality(DOMAIN src) |-> [c \in ModelColumns |-> src[nth(k)][c]]]
CopyRows(src, dst) ==
    [id \in DOMAIN src \cup DOMAIN dst |->
        IF id \in DOMAIN src THEN [c \in ModelColumns |-> src[id][c]] ELSE dst[id]]

\* database.py:49-68  the statements of the rebuild, named by the position of
\* init_db: whether the statement succeeds on d, and what it does to d
RebuildStatements == <<"create_new", "copy", "drop", "rename">>

SqlOk(stmt, d) ==
    CASE stmt = "create_new" -> TRUE
      [] stmt = "copy" ->
            /\ d.exists /\ d.shadow # None
            /\ ModelColumns \subseteq d.columns
            /\ DOMAIN d.rows \cap DOMAIN d.shadow[1] = {}
      [] stmt = "drop" -> d.exists
      [] stmt = "rename" -> d.shadow # None /\ ~d.exists

SqlEffect(stmt, d) ==
    CASE stmt = "create_new" ->
            IF d.shadow = None THEN [d EXCEPT !.shadow = Some(<<>>)] ELSE d
      [] stmt = "copy" -> [d EXCEPT !.shadow = Some(CopyRows(d.rows, d.shadow[1]))]
      [] stmt = "drop" ->
            [d EXCEPT !.exists = FALSE, !.columns = {}, !.weight_notnull = FALSE,
                      !.rows = <<>>]
      [] stmt = "rename" ->
            [d EXCEPT !.exists = TRUE, !.columns = ModelColumns,
                      !.weight_notnull = FALSE, !.rows = d.shadow[1],
                      !.shadow = None]

AfterStatement(stmt) ==
    CASE stmt = "create_new" -> "copy"
      [] stmt = "copy" -> "drop"
      [] stmt = "drop" -> "rename"
      [] stmt = "rename" -> "commit"

\* database.py:47  BEGIN TRANSACTION: from here the statements act on a copy
\* that only COMMIT writes to the file
\* (fault variant for C16: no transaction is opened, every statement is
\* written to the file as it runs)
BeginMissing(d) == None
Begin(d) == Some(d)

\* database.py:72  ROLLBACK: the file d stays as it is, the uncommitted copy
\* w is dropped
\* (fault variant for C13: the handler commits what has been done so far)
RollbackCommits(d, w) == IF w # None THEN w[1] ELSE d
Rollback(d, w) == d

\* a statement runs inside the open transaction, or straight on the file
Run(stmt) ==
    IF work # None
    THEN /\ work' = Some(SqlEffect(stmt, work[1]))
         /\ UNCHANGED <<rows, database>>
    ELSE /\ SetDb(SqlEffect(stmt, Db))
         /\ UNCHANGED work

Failed(step) == [hist EXCEPT !.failed = IF @ = "none" THEN step ELSE @]

\* main.py:77-79 on_startup / cli.py:9-12 init: the process calls init_db
InitDbCall ==
    /\ proc.entry \in {"service", "cli init"}
    /\ proc.inits = 0
    /\ init_db.pc = "idle"
    /\ init_db' = [IdleInitDb EXCEPT !.pc = "create_all"]
    /\ hist' = [start |-> Some(Db), pre |-> None, did |-> {}, failed |-> "none",
                seen |-> None,
                prev_ok |-> hist.start # None /\ hist.failed = "none",
                prev_did |-> hist.did]
    /\ UNCHANGED <<clock, limiterVars, ledgerVars, resp, database, work, proc, prior, collect_tx>>

\* database.py:14  create_all, outside every try: an error leaves init_db
InitDbCreateAll(fail) ==
    /\ init_db.pc = "create_all"
    /\ IF fail
       THEN /\ init_db' = [init_db EXCEPT !.pc = "raised"]
            /\ hist' = Failed("create_all")
            /\ UNCHANGED <<rows, database>>
       ELSE /\ SetDb(CreateAll(Db))
            /\ init_db' = [init_db EXCEPT !.pc = "table_info"]
            /\ UNCHANGED hist
    /\ UNCHANGED <<clock, limiterVars, origin, retired, resp, work, proc, prior, collect_tx>>

\* database.py:20-39  connect, PRAGMA table_info, existing, weight_info, alters;
\* an error is swallowed at database.py:76-78
InitDbTableInfo(fail) ==
    /\ init_db.pc = "table_info"
    /\ IF fail
       THEN /\ init_db' = [init_db EXCEPT !.pc = "returned"]
            /\ hist' = Failed("table_info")
       ELSE /\ init_db' = [pc |-> "alter",
                           existing |-> TableInfoNames(Db),
                           weight_info |-> WeightInfo(Db),
                           alters |-> Alters(TableInfoNames(Db))]
            /\ UNCHANGED hist
    /\ UNCHANGED <<clock, limiterVars, ledgerVars, resp, database, work, proc, prior, collect_tx>>

\* database.py:40-41  for sql in alters: conn.execute(text(sql))
InitDbAlter(fail) ==
    /\ init_db.pc = "alter"
    /\ init_db.alters # <<>>
    /\ LET c == Head(init_db.alters)
       IN  IF fail \/ ~AddColumnOk(Db, c)
           THEN /\ init_db' = [init_db EXCEPT !.pc = "returned"]
                /\ hist' = Failed("alter")
                /\ UNCHANGED <<rows, database>>
           ELSE /\ SetDb(AddColumn(Db, c))
                /\ init_db' = [init_db EXCEPT !.alters = Tail(@)]
                /\ hist' = [hist EXCEPT !.did = @ \cup {c}]
    /\ UNCHANGED <<clock, limiterVars, origin, retired, resp, work, proc, prior, collect_tx>>

\* database.py:44  rebuild only when weight_kg is NOT NULL
InitDbCheckRebuild ==
    /\ init_db.pc = "alter"
    /\ init_db.alters = <<>>
    /\ IF NeedsRebuild(init_db.weight_info)
       THEN /\ init_db' = [init_db EXCEPT !.pc = "begin"]
            /\ hist' = [hist EXCEPT !.did = @ \cup {"rebuild"}, !.pre = Some(Db)]
       ELSE /\ init_db' = [init_db EXCEPT !.pc = "returned"]
            /\ UNCHANGED hist
    /\ UNCHANGED <<clock, limiterVars, ledgerVars, resp, database, work, proc, prior, collect_tx>>

\* database.py:47  BEGIN TRANSACTION
RebuildBegin(fail) ==
    /\ init_db.pc = "begin"
    /\ IF fail
       THEN /\ init_db' = [init_db EXCEPT !.pc = "rollback"]
            /\ hist' = Failed("begin")
            /\ UNCHANGED work
       ELSE /\ work' = Begin(Db)
            /\ init_db' = [init_db EXCEPT !.pc = "create_new"]
            /\ UNCHANGED hist
    /\ UNCHANGED <<clock, limiterVars, ledgerVars, resp, database, proc, prior, collect_tx>>

\* database.py:49-68  CREATE TABLE IF NOT EXISTS transactions_new, INSERT ...
\* SELECT, DROP TABLE transactions, ALTER TABLE transactions_new RENAME
RebuildStatement(fail) ==
    /\ \E i \in DOMAIN RebuildStatements : init_db.pc = RebuildStatements[i]
    /\ IF fail \/ ~SqlOk(init_db.pc, View)
       THEN /\ init_db' = [init_db EXCEPT !.pc = "rollback"]
            /\ hist' = Failed(init_db.pc)
            /\ UNCHANGED <<rows, database, work>>
       ELSE /\ Run(init_db.pc)
            /\ init_db' = [init_db EXCEPT !.pc = AfterStatement(@)]
            /\ UNCHANGED hist
    /\ UNCHANGED <<clock, limiterVars, origin, retired, resp, proc, prior, collect_tx>>

\* database.py:69  COMMIT; without an open transaction it is an error
RebuildCommit(fail) ==
    /\ init_db.pc = "commit"
    /\ IF fail \/ work = None
       THEN /\ init_db' = [init_db EXCEPT !.pc = "rollback"]
            /\ hist' = Failed("commit")
            /\ UNCHANGED <<rows, database, work>>
       ELSE /\ SetDb(work[1])
            /\ work' = None
            /\ init_db' = [init_db EXCEPT !.pc = "returned"]
            /\ UNCHANGED hist
    /\ UNCHANGED <<clock, limiterVars, origin, retired, resp, proc, prior, collect_tx>>

\* database.py:70-75  except Exception: ROLLBACK, whose own error is swallowed;
\* leaving the with-block of database.py:22 closes the connection, which
\* discards whatever transaction is still open
RebuildRollback ==
    /\ init_db.pc = "rollback"
    /\ SetDb(Rollback(Db, work))
    /\ work' = None
    /\ init_db' = [init_db EXCEPT !.pc = "returned"]
    /\ UNCHANGED <<clock, limiterVars, origin, retired, resp, proc, hist, prior, collect_tx>>

\* init_db returns to on_startup / init
InitDbReturn ==
    /\ init_db.pc = "returned"
    /\ init_db' = IdleInitDb
    /\ proc' = [proc EXCEPT !.inits = @ + 1]
    /\ UNCHANGED <<clock, limiterVars, ledgerVars, resp, database, work, hist, prior, collect_tx>>

\* the error of database.py:14 propagates through on_startup (main.py:77-79)
\* or init (cli.py:9-12): the process ends without serving
InitDbRaise ==
    /\ init_db.pc = "raised"
    /\ init_db' = IdleInitDb
    /\ proc' = [proc EXCEPT !.entry = "crashed"]
    /\ UNCHANGED <<clock, limiterVars, ledgerVars, resp, database, work, hist, prior, collect_tx>>

\* another connection reads or writes while the rebuild is between BEGIN and
\* the end of COMMIT or ROLLBACK.  It works on the file: a reader gets what is
\* committed; a writer is refused (database is locked) while the transaction
\* of init_db is open.  result is None when refused, else Some(what it found).
RebuildWindow == {"create_new", "copy", "drop", "rename", "commit", "rollback"}

ConcurrentAccess(kind) ==
    /\ init_db.pc \in RebuildWindow
    /\ hist' = [hist EXCEPT !.seen =
                   Some([at |-> init_db.pc, kind |-> kind,
                         result |-> IF kind = "write" /\ work # None
                                    THEN None ELSE Some(Db)])]
    /\ UNCHANGED <<clock, limiterVars, ledgerVars, resp, database, work, init_db, proc, prior, collect_tx>>

\* --------------------------------------------------------- the entry points
EntryPoints == {"service", "cli init", "cli add", "cli list"}

\* uvicorn starts the app, or a cli command is run
StartProcess(entry) ==
    /\ proc.entry = "none"
    /\ proc.n < MaxRuns
    /\ proc' = [entry |-> entry, inits |-> 0, n |-> proc.n + 1]
    /\ resp' = NoResponse
    /\ UNCHANGED <<clock, limiterVars, ledgerVars, database, work, init_db, hist, prior, collect_tx>>

\* the process ends
ExitProcess ==
    /\ proc.entry # "none"
    /\ init_db.pc = "idle"
    /\ proc' = [proc EXCEPT !.entry = "none"]
    /\ resp' = NoResponse
    /\ UNCHANGED <<clock, limiterVars, ledgerVars, database, work, init_db, hist, prior, collect_tx>>

\* crud.py:6-18  create_transaction against the file as it is: the INSERT
\* names every column of models.py and fails on a table that lacks one, or on
\* a NULL weight_kg where the column is NOT NULL
CanInsert(d, tx) ==
    /\ d.exists
    /\ ModelColumns \subseteq d.columns
    /\ d.weight_notnull => tx.weight_kg # None

StoreCreateTransaction(op, tx_in) ==
    /\ NextId(rows) <= MaxRows
    /\ IF CanInsert(Db, tx_in)
       THEN /\ Insert(tx_in, [endpoint |-> op, admit |-> "not called"])
            /\ resp' = Response(op, 200)
       ELSE /\ resp' = Response(op, 500)
            /\ UNCHANGED ledgerVars
    /\ UNCHANGED <<clock, limiterVars, storeVars, prior, collect_tx>>

\* main.py:82-84  POST /transactions; requests are served once the startup
\* handlers have returned
ServiceCreateTransaction(tx_in) ==
    /\ proc.entry = "service" /\ proc.inits = 1 /\ init_db.pc = "idle"
    /\ StoreCreateTransaction("create_transaction", tx_in)

\* cli.py:15-29  add: create_transaction, no init_db
CliAdd(tx_in) ==
    /\ proc.entry = "cli add" /\ resp = NoResponse
    /\ StoreCreateTransaction("cli_add", tx_in)

\* cli.py:32-44  list: list_transactions, no init_db
CliList ==
    /\ proc.entry = "cli list" /\ resp = NoResponse
    /\ resp' = Response("cli_list",
                        IF Db.exists /\ ModelColumns \subseteq Db.columns THEN 200 ELSE 500)
    /\ UNCHANGED <<clock, limiterVars, ledgerVars, storeVars, prior, collect_tx>>

\* ------------------------------------------- databases left by older versions
\* database.py:16-19, 42  a table from before the collected_* columns were
\* added, with weight_kg still NOT NULL; simple_migrate.py: from before
\* address and photo were added
BaseColumns == {"name", "phone", "wallet", "weight_kg", "date", "status"}

LegacyColumnSets ==
    {BaseColumns \cup a \cup c :
        a \in {{}, {"address", "photo"}},
        c \in {{}, {"collected_weight_kg"}, CollectedColumns}}

SeedRows ==
    LET ann == CHOOSE x \in TxInputs : x.name = S_ann /\ x.weight_kg = Some(1)
        bob == CHOOSE x \in TxInputs : x.name = S_bob
    IN  {NewRow(ann, 0), NewRow(bob, 0), Collected(NewRow(ann, 0), Some(2), None, 1)}

LegacyRows(cols, notnull) ==
    {[c \in cols |-> r[c]] : r \in {x \in SeedRows : notnull => x.weight_kg # None}}

NoDatabase ==
    [exists |-> FALSE, columns |-> {}, weight_notnull |-> FALSE,
     shadow |-> None, rows |-> <<>>]

LegacyDatabases ==
    {NoDatabase} \cup
    UNION {UNION {{[exists |-> TRUE, columns |-> cols, weight_notnull |-> nn,
                    shadow |-> None, rows |-> t] :
                       t \in UNION {[ids -> LegacyRows(cols, nn)] : ids \in SUBSET TxIds}} :
                  nn \in BOOLEAN} :
           cols \in LegacyColumnSets}

InitEvolve ==
    /\ clock = 0
    /\ RATE_LIMIT_STORE = [h \in Hosts |-> <<>>]
    /\ RATE_LIMIT_LOCK = 0
    /\ pc = [t \in Threads |-> "idle"]
    /\ client_host = [t \in Threads |-> "unknown"]
    /\ read_lst = [t \in Threads |-> <<>>]
    /\ now = [t \in Threads |-> 0]
    /\ calls = <<>>
    /\ \E d \in LegacyDatabases : rows = d.rows /\ database = Layout(d)
    /\ origin = [id \in DOMAIN rows |-> [endpoint |-> "older version", admit |-> "not called"]]
    /\ retired = {}
    /\ resp = NoResponse
    /\ work = None
    /\ init_db = IdleInitDb
    /\ proc = [entry |-> "none", inits |-> 0, n |-> 0]
    /\ hist = NoHist
    /\ prior = None
    /\ collect_tx = [t \in Threads |-> IdleCollect]

NextEvolve ==
    \/ \E entry \in EntryPoints : StartProcess(entry)
    \/ ExitProcess
    \/ InitDbCall
    \/ \E fail \in BOOLEAN : InitDbCreateAll(fail)
    \/ \E fail \in BOOLEAN : InitDbTableInfo(fail)
    \/ \E fail \in BOOLEAN : InitDbAlter(fail)
    \/ InitDbCheckRebuild
    \/ \E fail \in BOOLEAN : RebuildBegin(fail)
    \/ \E fail \in BOOLEAN : RebuildStatement(fail)
    \/ \E fail \in BOOLEAN : RebuildCommit(fail)
    \/ RebuildRollback
    \/ InitDbReturn
    \/ InitDbRaise
    \/ \E kind \in {"read", "write"} : ConcurrentAccess(kind)
    \/ \E tx_in \in {x \in TxInputs : x.name = S_bob} : ServiceCreateTransaction(tx_in)
    \/ \E tx_in \in {x \in TxInputs : x.name = S_ann /\ x.weight_kg = Some(1)} : CliAdd(tx_in)
    \/ CliList

SpecEvolve == InitEvolve /\ [][NextEvolve]_vars

\* ------------------------------------------------------ one collect request
\* The collect route applied once to every table of rows of one submitter;
\* prior keeps the table the request found.
CollectTables ==
    UNION {[ids -> RowsFrom({x \in TxInputs : x.name = S_ann})] : ids \in SUBSET TxIds}

InitCollect ==
    /\ clock = MaxLedgerTime
    /\ RATE_LIMIT_STORE = [h \in Hosts |-> <<>>]
    /\ RATE_LIMIT_LOCK = 0
    /\ pc = [t \in Threads |-> "idle"]
    /\ client_host = [t \in Threads |-> "unknown"]
    /\ read_lst = [t \in Threads |-> <<>>]
    /\ now = [t \in Threads |-> 0]
    /\ calls = <<>>
    /\ rows \in CollectTables
    /\ origin = [id \in DOMAIN rows |-> [endpoint |-> "/transactions", admit |-> "not called"]]
    /\ retired = {}
    /\ resp = NoResponse
    /\ database = Layout(NewDatabase)
    /\ work = None
    /\ init_db = IdleInitDb
    /\ proc = [entry |-> "service", inits |-> 1, n |-> 1]
    /\ hist = NoHist
    /\ prior = Some(rows)
    /\ collect_tx = [t \in Threads |-> IdleCollect]

NextCollect ==
    /\ resp = NoResponse
    /\ \/ \E id \in TxIds, form \in CollectInputs :
             CollectTransactionEndpoint(id, form.collected_weight, form.collected_photo, TRUE)
       \/ CollectTransactionEndpoint(1, Some(1), None, FALSE)

SpecCollect == InitCollect /\ [][NextCollect]_vars

\* --------------------------------------- one boundary request on each table
NextBoundary ==
    /\ resp = NoResponse
    /\ \/ \E tx_in \in TxInputs : CreateTransaction(tx_in)
       \/ \E id \in TxIds, st \in StatusEnum, admin \in BOOLEAN : PatchStatus(id, st, admin)
       \/ \E id \in TxIds, form \in CollectInputs, admin \in BOOLEAN :
             CollectTransactionEndpoint(id, form.collected_weight, form.collected_photo, admin)
       \/ \E id \in TxIds, admin \in BOOLEAN : DeleteTransaction(id, admin)

SpecBoundary == InitCollect /\ [][NextBoundary]_vars

\* ------------------------- collect requests running in concurrent threads
\* Each request has its own Session (main.py:24-30), so each thread holds its
\* own copy of the row between the SELECT of get_transaction and the UPDATE
\* of db.commit().
\* crud.py:49  db.commit() flushes the row object: the UPDATE sets the columns
\* whose assigned value differs from the value that was loaded
FlushedColumns(loaded, assigned) ==
    {c \in DOMAIN assigned : assigned[c] # loaded[c]}

\* UPDATE transactions SET <cols> WHERE id = ...
Update(r, assigned, cols) ==
    [c \in DOMAIN r |-> IF c \in cols THEN assigned[c] ELSE r[c]]

CollectEnds(t, status) ==
    /\ collect_tx' = [collect_tx EXCEPT ![t].pc = "done", ![t].status = status]
    /\ resp' = Response("collect_transaction", status)

\* main.py:386-396  require_admin and the validation of the weight;
\* crud.py:41-43  tx = get_transaction(db, tx_id)
CollectLoad(t, tx_id, collected_weight, collected_photo, admin) ==
    /\ collect_tx[t].pc = "idle"
    /\ IF ~admin
       THEN CollectEnds(t, 403)
       ELSE IF collected_weight = None \/ NonPositive(collected_weight)
       THEN CollectEnds(t, 400)
       ELSE IF ~HasTransaction(tx_id)
       THEN CollectEnds(t, 404)
       ELSE /\ collect_tx' =
                   [collect_tx EXCEPT ![t] =
                       [pc |-> "loaded", tx_id |-> tx_id,
                        asked |-> Some([collected_weight |-> collected_weight,
                                        collected_photo |-> collected_photo]),
                        loaded |-> Some(rows[tx_id]), assigned |-> None,
                        status |-> 0]]
            /\ UNCHANGED resp
    /\ UNCHANGED <<clock, limiterVars, ledgerVars, storeVars, prior>>

\* crud.py:44-47  the four assignments; collected_at = datetime.utcnow()
CollectAssign(t) ==
    /\ collect_tx[t].pc = "loaded"
    /\ collect_tx' =
           [collect_tx EXCEPT
               ![t].pc = "assigned",
               ![t].assigned =
                   Some(Collected(collect_tx[t].loaded[1],
                                  StoredFloat(collect_tx[t].asked[1].collected_weight),
                                  collect_tx[t].asked[1].collected_photo, clock))]
    /\ UNCHANGED <<clock, limiterVars, ledgerVars, storeVars, prior, resp>>

\* crud.py:48-51  db.add(tx); db.commit(); db.refresh(tx)
\* An UPDATE that matches no row (the row was deleted meanwhile) makes the
\* flush raise, and the request ends with 500.
CollectCommit(t) ==
    /\ collect_tx[t].pc = "assigned"
    /\ LET id == collect_tx[t].tx_id
           cols == FlushedColumns(collect_tx[t].loaded[1], collect_tx[t].assigned[1])
       IN  IF ~HasTransaction(id) /\ cols # {}
           THEN /\ CollectEnds(t, 500)
                /\ UNCHANGED ledgerVars
           ELSE /\ rows' = IF HasTransaction(id)
                           THEN [rows EXCEPT ![id] =
                                    Update(@, collect_tx[t].assigned[1], cols)]
                           ELSE rows
                /\ CollectEnds(t, 200)
                /\ UNCHANGED <<origin, retired>>
    /\ UNCHANGED <<clock, limiterVars, storeVars, prior>>

InitCollectRace ==
    /\ clock = 0
    /\ RATE_LIMIT_STORE = [h \in Hosts |-> <<>>]
    /\ RATE_LIMIT_LOCK = 0
    /\ pc = [t \in Threads |-> "idle"]
    /\ client_host = [t \in Threads |-> "unknown"]
    /\ read_lst = [t \in Threads |-> <<>>]
    /\ now = [t \in Threads |-> 0]
    /\ calls = <<>>
    /\ rows \in {tb \in CollectTables : \A id \in DOMAIN tb : tb[id].date = 0 /\ tb[id].collected_at \in {None, Some(0)}}
    /\ origin = [id \in DOMAIN rows |-> [endpoint |-> "/transactions", admit |-> "not called"]]
    /\ retired = {}
    /\ resp = NoResponse
    /\ ServiceUp

NextCollectRace ==
    \/ LedgerTick
    \/ \E t \in Threads, id \in TxIds, form \in CollectInputs, admin \in BOOLEAN :
          CollectLoad(t, id, form.collected_weight, form.collected_photo, admin)
    \/ \E t \in Threads : CollectAssign(t)
    \/ \E t \in Threads : CollectCommit(t)

SpecCollectRace == InitCollectRace /\ [][NextCollectRace]_vars

\* ------------------------------------------------- the contributors lookup
\* path parameters tried: a wallet, a phone, and a string no row carries
ContributorIdentifiers == {S_wallet, S_phone, S_ann}

\* a read-only query as well: one request per table
NextContributors ==
    resp = NoResponse /\ \E identifier \in ContributorIdentifiers : RankingContributors(identifier)

SpecContributors == InitRanking /\ [][NextContributors]_vars

\* ------------------------------------------------ the two creation routes
NextSubmit ==
    \/ Tick
    \/ \E t \in Threads, c \in Clients : RateLimiterEnter(t, c)
    \/ \E t \in Threads : RateLimiterAcquire(t)
    \/ \E t \in Threads : RateLimiterBody(t, "submit_transaction")
    \/ \E t \in Threads, form \in SubmitForms : SubmitTransaction(t, form)
    \/ \E tx_in \in {x \in TxInputs : x.name = S_ann} : CreateTransaction(tx_in)

SpecSubmit == Init /\ [][NextSubmit]_vars

\* ---------------------------------------------------------------- claims
SameKeyBefore(j) == {i \in 1..(j-1) : calls[i].key = calls[j].key}

\* calls for the key of call j that were admitted before j took the lock and
\* started no earlier than RATE_LIMIT_WINDOW seconds before j completed
AdmittedInSpan(j) ==
    {i \in SameKeyBefore(j) :
        /\ calls[i].res = "allow"
        /\ calls[j].at - calls[i].now <= RATE_LIMIT_WINDOW}

\* all calls for the key of call j, j included, inside that span
CallsInSpan(j) ==
    {i \in SameKeyBefore(j) \cup {j} :
        calls[j].at - calls[i].now <= RATE_LIMIT_WINDOW}

\* C1 (as stated): whenever RATE_LIMIT_MAX+1 calls for one key lie within a
\* span of RATE_LIMIT_WINDOW seconds, the last of them is denied.
C1_AsStated ==
    \A j \in DOMAIN calls :
        (j \in CallsInSpan(j) /\ Cardinality(CallsInSpan(j)) >= RATE_LIMIT_MAX + 1)
            => calls[j].res = "deny"

\* C1 (amended): whenever RATE_LIMIT_MAX calls for one key were admitted and a
\* further call for that key lies with them within a span of
\* RATE_LIMIT_WINDOW seconds, the further call is denied.
C1_DenyAfterMaxAdmitted ==
    \A j \in DOMAIN calls :
        (j \in CallsInSpan(j) /\ Cardinality(AdmittedInSpan(j)) >= RATE_LIMIT_MAX)
            => calls[j].res = "deny"

C1_Witness ==
    \E j \in DOMAIN calls :
        /\ j \in CallsInSpan(j)
        /\ Cardinality(AdmittedInSpan(j)) >= RATE_LIMIT_MAX
        /\ calls[j].res = "deny"

\* i is the call for the same key that took the lock immediately before j
PrevSameKey(i, j) ==
    /\ i \in SameKeyBefore(j)
    /\ \A k \in SameKeyBefore(j) : k <= i

\* C2 (as stated): after a deny, once RATE_LIMIT_WINDOW seconds or more have
\* elapsed with no call for the key, the next call for the key is allowed.
C2_AsStated ==
    \A j \in DOMAIN calls : \A i \in DOMAIN calls :
        (PrevSameKey(i, j) /\ calls[i].res = "deny"
            /\ calls[j].now - calls[i].at >= RATE_LIMIT_WINDOW)
            => calls[j].res = "allow"

\* C2 (amended): after a deny, once more than RATE_LIMIT_WINDOW seconds have
\* elapsed with no call for the key, the next call for the key is allowed.
C2_AllowAfterWindow ==
    \A j \in DOMAIN calls : \A i \in DOMAIN calls :
        (PrevSameKey(i, j) /\ calls[i].res = "deny"
            /\ calls[j].now - calls[i].at > RATE_LIMIT_WINDOW)
            => calls[j].res = "allow"

C2_Witness ==
    \E j \in DOMAIN calls : \E i \in DOMAIN calls :
        /\ PrevSameKey(i, j) /\ calls[i].res = "deny"
        /\ calls[j].now - calls[i].at > RATE_LIMIT_WINDOW
        /\ calls[j].res = "allow"

\* admitted calls for key h whose recorded timestamp lies in [t - WINDOW, t]
AdmittedWithin(h, t) ==
    {i \in DOMAIN calls :
        /\ calls[i].key = h /\ calls[i].res = "allow"
        /\ calls[i].now <= t /\ t - calls[i].now <= RATE_LIMIT_WINDOW}

\* C3: under any interleaving, the admitted calls of one key whose recorded
\* timestamps fall in one trailing window number at most RATE_LIMIT_MAX.
C3_MaxPerWindow ==
    \A h \in Hosts : \A t \in Times :
        Cardinality(AdmittedWithin(h, t)) <= RATE_LIMIT_MAX

\* C4: every stored row was created by a request that passed the rate limiter
\* (admit was called for it and returned allow).
C4_CreatedOnlyWhenAdmitted ==
    \A id \in DOMAIN rows : origin[id].admit = "allow"

NonNull(x) == x # None

\* C5: each stored row has all three collected_* fields non-null if and only
\* if its status is collected.
C5_CollectedFieldsIffCollected ==
    \A id \in DOMAIN rows :
        (/\ NonNull(rows[id].collected_weight_kg)
         /\ NonNull(rows[id].collected_photo)
         /\ NonNull(rows[id].collected_at))
            <=> rows[id].status = "collected"

\* C6: the id of a deleted row is never given to a later row.
C6_NoIdReuse == DOMAIN rows \cap retired = {}

\* ---- the leaderboard, as the claims describe it
ResolvedIdentity(r) == IF r.wallet \notin {None, Some(S_empty)} THEN r.wallet ELSE r.phone

CollectedIds == {id \in DOMAIN rows : rows[id].status = "collected"}
IdentityGroup(k) == {id \in CollectedIds : ResolvedIdentity(rows[id]) = k}
Identities == {ResolvedIdentity(rows[id]) : id \in CollectedIds}

RECURSIVE TotalOf(_)
TotalOf(S) ==
    IF S = {} THEN 0
    ELSE LET id == CHOOSE x \in S : TRUE
             w == rows[id].collected_weight_kg
         IN  (IF w = None THEN 0 ELSE w[1]) + TotalOf(S \ {id})

IsRanking == resp.op = "ranking"
Shown == {resp.items[i].identifier : i \in DOMAIN resp.items}

\* the table with every row whose status is not collected removed
CollectedOnly == [id \in CollectedIds |-> rows[id]]

\* C7: a row whose status is not collected has no effect on the leaderboard:
\* the response is one the query gives on the table without those rows.
C7_NonCollectedIgnored ==
    IsRanking => resp.items \in RankingResults(CollectedOnly, resp.limit)

C7_Witness ==
    /\ IsRanking
    /\ \E id \in DOMAIN rows \ CollectedIds : \E other \in CollectedIds :
          /\ rows[id].collected_weight_kg # None
          /\ id > other
          /\ ResolvedIdentity(rows[id]) = ResolvedIdentity(rows[other])
          /\ ResolvedIdentity(rows[other]) \in Shown

\* C8: with limit at least the number of identities, the leaderboard has
\* exactly one entry per resolved identity with a collected row, and its
\* total_kg is the sum of collected_weight_kg over that identity's collected rows.
C8_OneEntryPerIdentity ==
    (IsRanking /\ resp.limit >= Cardinality(Identities)) =>
        /\ Len(resp.items) = Cardinality(Identities)
        /\ Shown = Identities
        /\ \A i \in DOMAIN resp.items :
              resp.items[i].total_kg = TotalOf(IdentityGroup(resp.items[i].identifier))

C8_Witness ==
    /\ IsRanking /\ resp.limit >= Cardinality(Identities)
    /\ \E i \in DOMAIN resp.items :
          /\ Cardinality(IdentityGroup(resp.items[i].identifier)) >= 2
          /\ resp.items[i].total_kg = 3
    /\ \E id \in DOMAIN rows : rows[id].wallet = Some(S_wallet)

\* C9: the name and the type of every entry come from the row with the
\* largest id among the collected rows of the entry's identity.
C9_RepresentativeIsMaxId ==
    IsRanking =>
        \A i \in DOMAIN resp.items :
            LET rep == rows[Max(IdentityGroup(resp.items[i].identifier))]
            IN  /\ resp.items[i].rep_name = Strip(rep.name)
                /\ resp.items[i].type = IF Truthy(rep.wallet) THEN "wallet" ELSE "phone"

\* the representative was collected earlier than an older row of its group
C9_Witness ==
    /\ IsRanking
    /\ \E i \in DOMAIN resp.items :
          LET grp == IdentityGroup(resp.items[i].identifier)
          IN  \E old \in grp :
                /\ old < Max(grp)
                /\ rows[Max(grp)].collected_at[1] < rows[old].collected_at[1]
                /\ Strip(rows[old].name) # Strip(rows[Max(grp)].name)
                /\ resp.items[i].rep_name = Strip(rows[Max(grp)].name)

\* C10: the leaderboard has at most limit entries, in non-increasing order of
\* total_kg, and no identity left out has a larger total than one included.
C10_TopByTotal ==
    IsRanking =>
        /\ Len(resp.items) <= resp.limit
        /\ \A i, j \in DOMAIN resp.items :
              i < j => resp.items[i].total_kg >= resp.items[j].total_kg
        /\ \A k \in Identities \ Shown : \A i \in DOMAIN resp.items :
              TotalOf(IdentityGroup(k)) <= resp.items[i].total_kg

C10_Witness ==
    /\ IsRanking /\ resp.limit = 1 /\ Len(resp.items) = 1
    /\ \E k \in Identities \ Shown :
          TotalOf(IdentityGroup(k)) < resp.items[1].total_kg

\* C11: identities with equal total_kg come in an order fixed by a rule of the
\* query, not by the order in which the store happens to return the rows: for
\* a given table and limit the leaderboard has exactly one possible answer.
C11_TieOrderDeterministic ==
    IsRanking => RankingResults(rows, resp.limit) = {resp.items}

\* a weight_kg form field that is present, not empty, and not a positive number
InvalidWeightField(form) ==
    /\ form.weight_kg # None /\ form.weight_kg # Some(S_empty)
    /\ (ParseFloat(form.weight_kg[1]) = None \/ ParseFloat(form.weight_kg[1])[1] <= 0)

\* the statuses that tell the caller the input was rejected as invalid
ValidationStatuses == {400, 422}

\* C19: a creation request with a non-positive or non-numeric weight_kg is
\* answered with a validation error, not the generic internal error, and
\* creates no row; on both creation routes.
C19_InvalidInputIsValidationError ==
    [][/\ \A t \in Threads, form \in SubmitForms :
             (InvalidWeightField(form) /\ SubmitTransaction(t, form))
                 => (resp'.status \in ValidationStatuses /\ rows' = rows)
       /\ \A tx_in \in TxInputs :
             (~ValidTransactionCreate(tx_in) /\ CreateTransaction(tx_in))
                 => (resp'.status \in ValidationStatuses /\ rows' = rows)]_vars

\* ---- the contributors lookup, as the claim describes it
IsContributors == resp.op = "ranking_contributors"

\* the rows whose wallet or whose phone is the identifier, whatever their status
Covered(identifier) ==
    {id \in DOMAIN rows :
        rows[id].wallet = Some(identifier) \/ rows[id].phone = Some(identifier)}

PairOf(id) == <<rows[id].wallet, rows[id].phone>>

RECURSIVE SubmittedTotal(_)
SubmittedTotal(S) ==
    IF S = {} THEN 0
    ELSE LET id == CHOOSE x \in S : TRUE
             w == rows[id].weight_kg
         IN  (IF w = None THEN 0 ELSE w[1]) + SubmittedTotal(S \ {id})

\* C20: the contributors response has exactly one entry per distinct
\* (wallet, phone) pair among the rows whose wallet or phone equals the
\* identifier, of any status, and each entry's kg is the sum of the submitted
\* weight_kg of the rows with that pair.
C20_ContributorsByPair ==
    IsContributors =>
        LET covered == Covered(resp.identifier)
            pairs == {PairOf(id) : id \in covered}
        IN  /\ Len(resp.items) = Cardinality(pairs)
            /\ {<<resp.items[i].wallet, resp.items[i].phone>> : i \in DOMAIN resp.items} = pairs
            /\ \A i \in DOMAIN resp.items :
                  resp.items[i].kg =
                      SubmittedTotal({id \in covered :
                          PairOf(id) = <<resp.items[i].wallet, resp.items[i].phone>>})

\* two pairs share the phone; one has no submitted weight, the other was
\* collected with a weight different from the submitted one
C20_Witness ==
    /\ IsContributors /\ resp.identifier = S_phone
    /\ Len(resp.items) = 2
    /\ \E i, j \in DOMAIN resp.items : resp.items[i].kg = 0 /\ resp.items[j].kg = 2
    /\ \E id \in Covered(S_phone) :
          /\ rows[id].status = "collected"
          /\ rows[id].weight_kg = Some(2)
          /\ rows[id].collected_weight_kg = Some(1)
    /\ \E id \in Covered(S_phone) : rows[id].status # "collected"

\* C18: a collect request with a positive weight on a row that is already
\* collected succeeds and leaves the row with the weight, the photo and the
\* time of this request, status collected.
C18_CollectOverwrites ==
    [][\A id \in TxIds, form \in CollectInputs :
          (/\ HasTransaction(id) /\ rows[id].status = "collected"
           /\ form.collected_weight # None /\ form.collected_weight[1] > 0
           /\ CollectTransactionEndpoint(id, form.collected_weight,
                                         form.collected_photo, TRUE))
              => /\ resp'.status = 200
                 /\ rows'[id].collected_weight_kg = form.collected_weight
                 /\ rows'[id].collected_photo = form.collected_photo
                 /\ rows'[id].collected_at = Some(clock)
                 /\ rows'[id].status = "collected"]_vars

\* a row that was collected with a photo at time 0 now carries another weight,
\* no photo, and a later time
C18_Witness ==
    /\ resp.op = "collect_transaction" /\ resp.status = 200
    /\ prior # None
    /\ \E id \in DOMAIN rows :
          /\ prior[1][id].status = "collected"
          /\ prior[1][id].collected_weight_kg = Some(2)
          /\ prior[1][id].collected_photo # None
          /\ prior[1][id].collected_at = Some(0)
          /\ rows[id].status = "collected"
          /\ rows[id].collected_weight_kg = Some(1)
          /\ rows[id].collected_photo = None
          /\ rows[id].collected_at = Some(MaxLedgerTime)

\* ---- init_db, as the claims describe it
RunEnded == init_db.pc = "returned"

\* C12: a run of init_db that follows a run which completed without any
\* failing step executes no ALTER and no rebuild, and at every point up to
\* its end the database, rows included, is exactly as the run found it.
C12_SecondRunIsNoOp ==
    (init_db.pc # "idle" /\ hist.prev_ok) =>
        /\ hist.did = {}
        /\ Db = hist.start[1]

\* the first run added columns and rebuilt a table that had rows
C12_Witness ==
    /\ RunEnded /\ hist.prev_ok
    /\ {"collected_at", "rebuild"} \subseteq hist.prev_did
    /\ hist.did = {}
    /\ DOMAIN rows # {}
    /\ ~database.weight_notnull

RebuildSteps == {"begin", "create_new", "copy", "drop", "rename", "commit"}

\* C13: when a step of the rebuild fails, init_db returns with the
\* transactions table in place, its layout and rows as they were when the
\* rebuild started, and no transactions_new table.
C13_FailedRebuildRestores ==
    (RunEnded /\ hist.failed \in RebuildSteps) =>
        /\ Db.exists
        /\ Db.shadow = None
        /\ Db.rows = hist.pre[1].rows
        /\ Db.columns = hist.pre[1].columns
        /\ Db.weight_notnull = hist.pre[1].weight_notnull

\* the rename failed, after the rows were copied and the table dropped
C13_Witness ==
    /\ RunEnded /\ hist.failed = "rename"
    /\ DOMAIN rows # {}
    /\ database.exists /\ database.weight_notnull

\* C14: init_db never ends by raising to its caller, and no process ends
\* because of it.
C14_NeverRaises == init_db.pc # "raised" /\ proc.entry # "crashed"

LedgerOps == {"create_transaction", "cli_add", "cli_list"}

\* C15: whenever a process has executed a Ledger operation, init_db has run
\* to completion exactly once in that process before it.
C15_EvolveOnceBeforeLedger == resp.op \in LedgerOps => proc.inits = 1

\* the table as a rebuild that started from d leaves it
PostRebuild(d) ==
    [exists |-> TRUE, columns |-> ModelColumns, weight_notnull |-> FALSE,
     shadow |-> None, rows |-> d.rows]

\* C16: what another connection finds while the rebuild is in progress is the
\* table entirely as before the rebuild or entirely as after it (or the
\* access is refused): never a missing table, a transactions_new table, or
\* part of the rows.
C16_NoIntermediateState ==
    (hist.seen # None /\ hist.seen[1].result # None) =>
        LET found == hist.seen[1].result[1]
        IN  /\ found.exists
            /\ found.shadow = None
            /\ found.rows = hist.pre[1].rows
            /\ \/ Layout(found) = Layout(hist.pre[1])
               \/ Layout(found) = Layout(PostRebuild(hist.pre[1]))

\* a reader came while init_db had copied the rows and dropped the table
C16_Witness ==
    /\ hist.seen # None
    /\ hist.seen[1].at = "rename" /\ hist.seen[1].kind = "read"
    /\ hist.seen[1].result # None
    /\ DOMAIN hist.seen[1].result[1].rows # {}
    /\ work # None /\ ~work[1].exists

\* every row of before is in after under the same id with the same value in
\* every column of before, and after has no other row
RowsPreserved(before, after) ==
    /\ DOMAIN after.rows = DOMAIN before.rows
    /\ \A id \in DOMAIN before.rows : \A c \in before.columns :
          after.rows[id][c] = before.rows[id][c]

\* C17: from the call of init_db to its end, however it ends, the rows on
\* file are the rows it found: same ids, same values in every column that
\* existed, no row added.
C17_RowsPreserved ==
    init_db.pc # "idle" => RowsPreserved(hist.start[1], Db)

\* columns were added and the table rebuilt; the only row has id 2 and a
\* NULL phone
C17_Witness ==
    /\ RunEnded /\ hist.failed = "none"
    /\ {"collected_at", "rebuild"} \subseteq hist.did
    /\ DOMAIN rows = {2}
    /\ DOMAIN hist.start[1].rows = {2}
    /\ rows[2].phone = None
    /\ rows[2].collected_at = None

\* ------------------------------------------------------ limiter contracts
\* keys under which requests without a usable client address are counted
AnonymousKeys == {ClientHost(c) : c \in AnonymousClients}

\* admitted calls without a usable client address whose recorded timestamp
\* lies in [t - WINDOW, t]
AnonymousAdmittedWithin(t) ==
    {i \in DOMAIN calls :
        /\ calls[i].key \in AnonymousKeys /\ calls[i].res = "allow"
        /\ calls[i].now <= t /\ t - calls[i].now <= RATE_LIMIT_WINDOW}

\* C21: requests whose client address is unknown or empty are all counted
\* under one sentinel key, and at most RATE_LIMIT_MAX of them are admitted
\* in one window.
C21_UnknownSharesOneBucket ==
    /\ \A i, j \in DOMAIN calls :
           (calls[i].key \in AnonymousKeys /\ calls[j].key \in AnonymousKeys)
               => calls[i].key = calls[j].key
    /\ \A t \in Times : Cardinality(AnonymousAdmittedWithin(t)) <= RATE_LIMIT_MAX

\* the step completes a rate_limiter call with the given outcome
Completes(res) ==
    /\ Len(calls') = Len(calls) + 1
    /\ calls'[Len(calls')].res = res

\* C22: a call that is denied leaves the stored timestamp sequence of every
\* key exactly as it was before the call.
C22_DenyStoresNothing ==
    [][Completes("deny") => RATE_LIMIT_STORE' = RATE_LIMIT_STORE]_vars

C22_Witness ==
    /\ calls # <<>>
    /\ calls[Len(calls)].res = "deny"
    /\ Len(RATE_LIMIT_STORE[calls[Len(calls)].key]) = RATE_LIMIT_MAX

\* C23: in every reachable state the stored timestamp sequence of each key
\* has at most RATE_LIMIT_MAX entries.
C23_StoredLengthAtMostMax ==
    \A h \in Hosts : Len(RATE_LIMIT_STORE[h]) <= RATE_LIMIT_MAX

\* two keys are both full, the last of the calls having been admitted
C23_Witness ==
    /\ \E h1, h2 \in Hosts :
           /\ h1 # h2
           /\ Len(RATE_LIMIT_STORE[h1]) = RATE_LIMIT_MAX
           /\ Len(RATE_LIMIT_STORE[h2]) = RATE_LIMIT_MAX
    /\ calls # <<>>
    /\ calls[Len(calls)].res = "allow"

\* C24 (as stated): at the moment a call reads the stored sequence of its key
\* (main.py:53, the lock just taken), every timestamp ts in the table for
\* that key satisfies now - ts <= RATE_LIMIT_WINDOW.
C24_AsStated ==
    \A t \in Threads :
        pc[t] = "locked" =>
            \A k \in DOMAIN RATE_LIMIT_STORE[client_host[t]] :
                now[t] - RATE_LIMIT_STORE[client_host[t]][k] <= RATE_LIMIT_WINDOW

\* the admitted calls for key h
AllowedFor(h) == {i \in DOMAIN calls : calls[i].key = h /\ calls[i].res = "allow"}

\* C24 (amended): the stored sequence of a key is the one its last admitted
\* call wrote, and every timestamp ts in it satisfies
\* now - ts <= RATE_LIMIT_WINDOW for the now of that call; expired timestamps
\* are removed when a call is admitted, not before the read.
C24_NoExpiredWhenWritten ==
    \A h \in Hosts :
        IF AllowedFor(h) = {}
        THEN RATE_LIMIT_STORE[h] = <<>>
        ELSE \A k \in DOMAIN RATE_LIMIT_STORE[h] :
                 calls[Max(AllowedFor(h))].now - RATE_LIMIT_STORE[h][k]
                     <= RATE_LIMIT_WINDOW

\* an admitted call has removed an expired timestamp of its key
C24_Witness ==
    \E h \in Hosts : \E i, j \in AllowedFor(h) :
        /\ j = Max(AllowedFor(h))
        /\ calls[j].now - calls[i].now > RATE_LIMIT_WINDOW
        /\ RATE_LIMIT_STORE[h] = <<calls[j].now>>

\* thread t is between the acquisition of the lock and the exit of the with-block
InSection(t) == pc[t] \in {"locked", "read", "evicted"}

\* C25: the read, evict, check and store of one call form one critical
\* section: at most one call is inside it, that call holds the lock, and the
\* table entry it read has not been written by anyone since it read it.
C25_SingleCriticalSection ==
    /\ Cardinality({t \in Threads : InSection(t)}) <= 1
    /\ \A t \in Threads :
           /\ InSection(t) => RATE_LIMIT_LOCK = t
           /\ pc[t] = "read" =>
                  read_lst[t] = StoreGet(RATE_LIMIT_STORE, client_host[t])
           /\ pc[t] = "evicted" =>
                  read_lst[t] = Evict(StoreGet(RATE_LIMIT_STORE, client_host[t]), now[t])

\* one call is between its read and its store while another call for the
\* same key, whose key already has timestamps, waits for the lock
C25_Witness ==
    \E t, u \in Threads :
        /\ t # u
        /\ pc[t] = "evicted" /\ pc[u] = "wait_lock"
        /\ client_host[t] = client_host[u]
        /\ RATE_LIMIT_STORE[client_host[t]] # <<>>

\* C26: under concurrent calls for one key, the stored timestamp sequence of
\* the key is in non-decreasing order.
C26_StoredSequenceOrdered ==
    \A h \in Hosts :
        \A k \in 1..(Len(RATE_LIMIT_STORE[h]) - 1) :
            RATE_LIMIT_STORE[h][k] <= RATE_LIMIT_STORE[h][k + 1]

\* C29: every call ends with allow or deny and leaves the lock free on both
\* exits, so that under fair scheduling every call that has started
\* eventually completes.
C29_EveryCallCompletes ==
    /\ [](\A i \in DOMAIN calls : calls[i].res \in {"allow", "deny"})
    /\ []((\A t \in Threads : ~InSection(t)) => RATE_LIMIT_LOCK = 0)
    /\ \A t \in Threads : (pc[t] # "idle") ~> (pc[t] = "idle")

\* a call that read its clock before a denied call did has completed after
\* it: it waited for the lock while the denied call held and released it
C29_Witness ==
    \E i, j \in DOMAIN calls :
        /\ i < j
        /\ calls[i].res = "deny"
        /\ calls[j].now < calls[i].now
        /\ \A t \in Threads : pc[t] = "idle"
        /\ RATE_LIMIT_LOCK = 0

\* ------------------------------------------------------- status changes
\* the step leaves some row with status collected that did not have it before
BecomesCollected ==
    \E id \in DOMAIN rows' :
        /\ rows'[id].status = "collected"
        /\ id \in DOMAIN rows => rows[id].status # "collected"

\* C27: a status-update request for collected is refused (400 once the
\* caller is let in as admin) and changes no row; a status-update request
\* for pending or cancelled on an existing row sets that status and nothing
\* else; and a row becomes collected only by a successful collect request.
C27_CollectedOnlyByCollect ==
    [][/\ \A id \in TxIds, admin \in BOOLEAN :
             PatchStatus(id, "collected", admin)
                 => /\ rows' = rows
                    /\ resp'.status = IF admin THEN 400 ELSE 403
       /\ \A id \in TxIds, st \in {"pending", "cancelled"} :
             (HasTransaction(id) /\ PatchStatus(id, st, TRUE))
                 => /\ resp'.status = 200
                    /\ rows' = [rows EXCEPT ![id].status = st]
       /\ BecomesCollected
             => (resp'.op = "collect_transaction" /\ resp'.status = 200)]_vars

\* a status update to collected was refused with 400 on a table that holds
\* a pending row, and the table is as it was
C27_Witness ==
    /\ resp.op = "patch_status" /\ resp.status = 400
    /\ prior # None /\ rows = prior[1]
    /\ \E id \in DOMAIN rows : rows[id].status = "pending"

\* C30: every row whose status is collected has a strictly positive
\* collected_weight_kg and a non-null collected_at.
C30_CollectedWeightPositive ==
    \A id \in DOMAIN rows :
        rows[id].status = "collected" =>
            /\ rows[id].collected_weight_kg # None
            /\ rows[id].collected_weight_kg[1] > 0
            /\ rows[id].collected_at # None

\* ------------------------------------------------------ concurrent collects
\* the collect calls on row id that have committed
Committed(id) ==
    {t \in Threads : /\ collect_tx[t].pc = "done" /\ collect_tx[t].status = 200
                     /\ collect_tx[t].tx_id = id}

\* C28: once the concurrent collect calls on a row have all completed, the
\* row's collected_weight_kg, collected_photo and collected_at are those of
\* one and the same call.
C28_CollectFromOneCall ==
    \A id \in DOMAIN rows :
        (/\ \A t \in Threads : collect_tx[t].pc \in {"idle", "done"}
         /\ Committed(id) # {})
            => \E t \in Committed(id) :
                   /\ rows[id].collected_weight_kg =
                          StoredFloat(collect_tx[t].asked[1].collected_weight)
                   /\ rows[id].collected_photo = collect_tx[t].asked[1].collected_photo
                   /\ rows[id].collected_at = collect_tx[t].assigned[1].collected_at

====
